---------------------------- MODULE Spec2Model ----------------------------
(***************************************************************************)
(* Model of the MP3 client/server of CS469-Group-Project.                  *)
(*                                                                         *)
(* Text and file contents are sequences of byte values (0..255); a C       *)
(* string is the prefix of a buffer up to its first 0 byte.  One record of *)
(* a channel is the data of one SSL_write, which one SSL_read of a         *)
(* BUFFER_SIZE buffer returns whole.                                       *)
(***************************************************************************)
EXTENDS Integers, Sequences, FiniteSets, TLC

\* ------------------------------------------------------------- constants
BUFFER_SIZE == 256
HASH_SIZE == 32
MAX_RETRIES == 3
RPC_ERROR_TOO_MANY_ARGS == -1
RPC_ERROR_TOO_FEW_ARGS == -2
RPC_ERROR_BAD_OPERATION == -3
EXIT_SUCCESS == 0
EXIT_FAILURE == 1
ENOENT == 2

RPC_SEARCH_OPERATION == <<83,69,65,82,67,72>>          \* "SEARCH"
RPC_DOWNLOAD_OPERATION == <<68,79,87,78,76,79,65,68>>  \* "DOWNLOAD"
RPC_LIST_OPERATION == <<76,73,83,84>>                  \* "LIST"
ERROR_FILE_ERROR == <<70,73,76,69,69,82,82,79,82>>     \* "FILEERROR"
ERROR_RPC_ERROR == <<82,80,67,69,82,82,79,82>>         \* "RPCERROR"
MP3_EXT == <<46,109,112,51>>                           \* ".mp3"
SearchTerm == <<83,112,114,111,117,116,115>>           \* "Sprouts"

NUL == 0
SP == 32
LF == 10
MINUS == 45

\* ------------------------------------------------------------- bounds
MaxDirEntries == 3   \* entries of the served directory
MaxConn == 2         \* connections one behaviour of the client opens
MaxThreads == 3      \* playback threads one run of the client creates

\* ------------------------------------------------------------- C strings
Min(a, b) == IF a < b THEN a ELSE b

Take(s, n) == SubSeq(s, 1, Min(n, Len(s)))

Drop(s, n) == SubSeq(s, n + 1, Len(s))

\* the values of a char, as unsigned
Byte == 0..255

\* isspace() in the C locale
Space == {9, 10, 11, 12, 13, 32}

\* isdigit()
Digit == 48..57

\* the least index j >= i of s that holds a byte of stop; Len(s)+1 when
\* there is none
FirstAt(s, i, stop) ==
  LET S == { j \in i..Len(s) : s[j] \in stop }
  IN  IF S = {} THEN Len(s) + 1 ELSE CHOOSE j \in S : \A k \in S : j <= k

\* strlen(): the number of bytes before the first 0 (the whole buffer when
\* it holds none: what follows it is modelled as a 0)
strlen(buf) == FirstAt(buf, 1, {NUL}) - 1

CStr(buf) == SubSeq(buf, 1, strlen(buf))

\* first index >= i of s that holds no white space (Len(s)+1 when none)
SkipSpace(s, i) == FirstAt(s, i, Byte \ Space)

\* end (exclusive) of the run of non-space bytes that starts at i, at most
\* width bytes long (width < 0: unlimited), as scanf's %s reads it
TokenEnd(s, i, width) ==
  IF width < 0 THEN FirstAt(s, i, Space)
  ELSE Min(FirstAt(s, i, Space), i + width)

\* end (exclusive) of the run of bytes other than '\n' that starts at i, as
\* scanf's %[^\n] reads it
LineEnd(s, i) == FirstAt(s, i, {LF})

\* strstr(haystack, needle) != NULL
strstr(haystack, needle) ==
  \E i \in 0..(Len(haystack) - Len(needle)) :
     SubSeq(haystack, i + 1, i + Len(needle)) = needle

\* strcmp(a, b) == 0
strcmp0(a, b) == a = b

\* printf's %d
RECURSIVE Digits(_)
Digits(n) ==
  IF n < 10 THEN <<48 + n>> ELSE Append(Digits(n \div 10), 48 + (n % 10))

FormatInt(n) == IF n < 0 THEN <<MINUS>> \o Digits(0 - n) ELSE Digits(n)

\* sprintf(buf, "%s %d", tag, code): the characters written before the 0
sprintf_s_d(tag, code) == tag \o <<SP>> \o FormatInt(code)

\* snprintf(buf, size, ...): at most size-1 characters are kept
snprintf(size, text) == Take(text, size - 1)


\* ----------------------------------------------------- request decoding
\* sscanf(buffer, "%s %[^\n]", operation, argument) on the C string s: the
\* number of items assigned (-1 is EOF: no byte but white space) and the two
\* strings; a string that is not assigned is given as <<>> and is not read
\* by the caller.
sscanf_request(s) ==
  LET i1 == SkipSpace(s, 1)
      e1 == TokenEnd(s, i1, -1)
      i2 == SkipSpace(s, e1)
      e2 == LineEnd(s, i2)
  IN  IF i1 > Len(s)
         THEN [scanned_items |-> -1, operation |-> <<>>, argument |-> <<>>]
      ELSE IF e2 = i2
         THEN [scanned_items |-> 1, operation |-> SubSeq(s, i1, e1 - 1),
               argument |-> <<>>]
      ELSE [scanned_items |-> 2, operation |-> SubSeq(s, i1, e1 - 1),
            argument |-> SubSeq(s, i2, e2 - 1)]

\* A dispatch that looks at the operation word alone: LIST is served
\* whatever follows it.
dispatch_OperationOnly(sc) ==
  IF sc.scanned_items >= 1 /\ strcmp0(sc.operation, RPC_LIST_OPERATION)
     THEN [call |-> "list_files", code |-> 0]
  ELSE IF sc.scanned_items = 2
     THEN IF strcmp0(sc.operation, RPC_SEARCH_OPERATION)
             THEN [call |-> "search_files", code |-> 0]
          ELSE IF strcmp0(sc.operation, RPC_DOWNLOAD_OPERATION)
             THEN [call |-> "send_file_with_hash", code |-> 0]
          ELSE [call |-> "error", code |-> RPC_ERROR_BAD_OPERATION]
  ELSE [call |-> "error", code |-> RPC_ERROR_TOO_FEW_ARGS]

\* A dispatch that replies to an unknown operation with the first code of
\* CommunicationConstants.h in place of the third.
dispatch_FirstCode(sc) ==
  IF sc.scanned_items = 1
     THEN IF strcmp0(sc.operation, RPC_LIST_OPERATION)
             THEN [call |-> "list_files", code |-> 0]
             ELSE [call |-> "error", code |-> RPC_ERROR_TOO_FEW_ARGS]
  ELSE IF sc.scanned_items = 2
     THEN IF strcmp0(sc.operation, RPC_SEARCH_OPERATION)
             THEN [call |-> "search_files", code |-> 0]
          ELSE IF strcmp0(sc.operation, RPC_DOWNLOAD_OPERATION)
             THEN [call |-> "send_file_with_hash", code |-> 0]
          ELSE [call |-> "error", code |-> RPC_ERROR_TOO_MANY_ARGS]
  ELSE [call |-> "error", code |-> RPC_ERROR_TOO_FEW_ARGS]

\* What handle_rpc_request does with a decoded request: the function it
\* calls, or the RPC error code it replies with.
dispatch(sc) ==
  IF sc.scanned_items = 1
     THEN IF strcmp0(sc.operation, RPC_LIST_OPERATION)
             THEN [call |-> "list_files", code |-> 0]
             ELSE [call |-> "error", code |-> RPC_ERROR_TOO_FEW_ARGS]
  ELSE IF sc.scanned_items = 2
     THEN IF strcmp0(sc.operation, RPC_SEARCH_OPERATION)
             THEN [call |-> "search_files", code |-> 0]
          ELSE IF strcmp0(sc.operation, RPC_DOWNLOAD_OPERATION)
             THEN [call |-> "send_file_with_hash", code |-> 0]
          ELSE [call |-> "error", code |-> RPC_ERROR_BAD_OPERATION]
  ELSE [call |-> "error", code |-> RPC_ERROR_TOO_FEW_ARGS]

\* Bytes an uninitialized stack buffer may hold after the bytes the program
\* stored in it.  Residue: what follows the received request up to the next
\* 0 byte; UninitBytes: the value filling the rest of a 256-byte buffer.
Residue == { <<>>, <<120>>, <<SP, 120>> }

UninitBytes == {0, 120}

Fill(n, b) == [i \in 1..n |-> b]

\* The BUFFER_SIZE bytes of errorMsg after sprintf(errorMsg, "%s %d", ...):
\* the text, its terminating 0, then whatever the stack held.
errorMsgBuffer(text, b) ==
  text \o <<NUL>> \o Fill(BUFFER_SIZE - Len(text) - 1, b)

\* ------------------------------------------------------ served directory
Name_a == <<97,46,109,112,51>>             \* "a.mp3"
Name_b == <<98,46,109,112,51>>             \* "b.mp3"
Name_A == <<65,46,109,112,51>>             \* "A.mp3"
Name_txt == <<97,46,116,120,116>>          \* "a.txt"
Name_d == <<100,46,109,112,51>>            \* "d.mp3", a directory
Name_my == <<109,121,32,97,46,109,112,51>> \* "my a.mp3"
Name_c == <<99,46,109,112,51>>             \* "c.mp3", never served
Name_e == <<101,46,109,112,51>>            \* "e.mp3"
Name_f == <<102,46,109,112,51>>            \* "f.mp3"
Name_g == <<103,46,109,112,51>>            \* "g.mp3"

Pattern(n, k) == [i \in 1..n |-> 128 + ((i * k) % 100)]

\* The bytes of each served file.
FileContent(name) ==
  CASE name = Name_a -> <<73,68,51>>
    [] name = Name_b -> Pattern(2 * BUFFER_SIZE, 7)
    [] name = Name_A -> <<>>
    [] name = Name_txt -> <<104,105>>
    [] name = Name_my -> Pattern(BUFFER_SIZE, 3)
    [] name = Name_e -> Pattern(BUFFER_SIZE + 1, 11)
    [] name = Name_f -> ERROR_FILE_ERROR \o <<SP,50,LF,1,2,3>>
    [] name = Name_g -> Pattern(BUFFER_SIZE, 13) \o ERROR_RPC_ERROR \o <<SP,MINUS,51>>
    [] OTHER -> <<>>

Entry(name, type) == [d_name |-> name, d_type |-> type]

DirUniverse ==
  { Entry(Name_a, "DT_REG"), Entry(Name_A, "DT_REG"), Entry(Name_b, "DT_REG"),
    Entry(Name_txt, "DT_REG"), Entry(Name_d, "DT_DIR"), Entry(Name_my, "DT_REG") }

Range(q) == { q[i] : i \in 1..Len(q) }

\* every sequence without repetition of at most n entries of S
RECURSIVE SeqsNoRep(_, _)
SeqsNoRep(S, n) ==
  IF n = 0 THEN { <<>> }
  ELSE LET shorter == SeqsNoRep(S, n - 1)
       IN  shorter \cup
           UNION { { Append(q, e) : e \in S \ Range(q) } :
                   q \in { p \in shorter : Len(p) = n - 1 } }

Directories == SeqsNoRep(DirUniverse, MaxDirEntries)

\* readdir() loop of list_files: one record "<name>\n" per regular file
\* whose name contains ".mp3", in directory order
RECURSIVE list_files_records(_)
list_files_records(d) ==
  IF d = <<>> THEN <<>>
  ELSE LET entry == Head(d)
           fileName == snprintf(BUFFER_SIZE, entry.d_name \o <<LF>>)
       IN  IF entry.d_type = "DT_REG" /\ strstr(entry.d_name, MP3_EXT)
              THEN <<SubSeq(fileName, 1, strlen(fileName))>>
                   \o list_files_records(Tail(d))
              ELSE list_files_records(Tail(d))

\* A search loop without the test for ".mp3"
RECURSIVE search_files_records_AnyName(_, _)
search_files_records_AnyName(d, search_term) ==
  IF d = <<>> THEN <<>>
  ELSE LET entry == Head(d)
           fileName == snprintf(BUFFER_SIZE, entry.d_name \o <<LF>>)
       IN  IF entry.d_type = "DT_REG" /\ strstr(entry.d_name, search_term)
              THEN <<SubSeq(fileName, 1, strlen(fileName))>>
                   \o search_files_records_AnyName(Tail(d), search_term)
              ELSE search_files_records_AnyName(Tail(d), search_term)

\* readdir() loop of search_files
RECURSIVE search_files_records(_, _)
search_files_records(d, search_term) ==
  IF d = <<>> THEN <<>>
  ELSE LET entry == Head(d)
           fileName == snprintf(BUFFER_SIZE, entry.d_name \o <<LF>>)
       IN  IF entry.d_type = "DT_REG" /\ strstr(entry.d_name, search_term)
              /\ strstr(entry.d_name, MP3_EXT)
              THEN <<SubSeq(fileName, 1, strlen(fileName))>>
                   \o search_files_records(Tail(d), search_term)
              ELSE search_files_records(Tail(d), search_term)

\* fopen(filepath, "rb") != NULL: the directory holds an entry of that name
\* (a directory opens too; reading it yields no byte)
FileExists(d, filename) == \E i \in 1..Len(d) : d[i].d_name = filename

FileBytes(d, filename) ==
  IF \E i \in 1..Len(d) : d[i].d_name = filename /\ d[i].d_type = "DT_REG"
     THEN FileContent(filename) ELSE <<>>

\* ---------------------------------------------------------------- digest
\* SHA256_Init / SHA256_Update / SHA256_Final, abstracted to a running
\* checksum of the bytes fed to it and their number; the final block is
\* HASH_SIZE bytes long.
SHA256_Init == [h |-> 7, n |-> 0]

SHA256_Step(c, byte) == [h |-> (c.h * 31 + byte) % 65521, n |-> c.n + 1]

RECURSIVE SHA256_Fold(_, _, _, _)
SHA256_Fold(c, data, lo, hi) ==
  IF lo > hi THEN c
  ELSE IF lo = hi THEN SHA256_Step(c, data[lo])
  ELSE LET mid == (lo + hi) \div 2
           left == SHA256_Fold(c, data, lo, mid)
       IN  IF left.n >= 0 THEN SHA256_Fold(left, data, mid + 1, hi) ELSE left

SHA256_Update(c, data) == SHA256_Fold(c, data, 1, Len(data))

SHA256_Final(c) ==
  [i \in 1..HASH_SIZE |->
     CASE i = 1 -> c.h % 256
       [] i = 2 -> c.h \div 256
       [] i = 3 -> c.n % 256
       [] i = 4 -> (c.n \div 256) % 256
       [] OTHER -> 255]


\* ----------------------------------------------------------------- state
Conn == 1..MaxConn

VARIABLES
  srv,      \* the server process: "running" or "exited"
  dir,      \* the served directory MP3_DIR: its entries in readdir order
  chan,     \* per connection: the socket and the two directions of the stream
  hpc,      \* per connection: where its handle_client thread is
  hloc,     \* per connection: the locals of that thread
  res,      \* per connection: what the thread has allocated and released
  cpc,      \* the client process: where its main flow is
  cloc,     \* the client's locals (main and downloadMP3) and ssl_connection
  cres,     \* per connection: what the client has allocated and released
  disk,     \* downloaded-mp3s on the client: the files written and their bytes
  peer,     \* a raw peer of the server (in place of the client program)
  play      \* the client's playback: stopFlag, ptid and the playback threads

srvVars == <<srv, dir, hpc, hloc, res>>
cliVars == <<cpc, cloc, cres, disk, play>>
vars == <<srv, dir, chan, hpc, hloc, res, cpc, cloc, cres, disk, peer, play>>

\* c2s and s2c are the records written so far in each direction; a reader
\* keeps the number of records it has read.
FreeChan ==
  [state |-> "free", hs |-> "none", c2s |-> <<>>, cClosed |-> FALSE,
   s2c |-> <<>>, sClosed |-> FALSE]

\* (cell is the heap cell main allocates for the connection: the descriptor
\* stored in it, 0 before the malloc, -1 once freed; arg is the cell the
\* thread was given; client is handle_client's copy of the descriptor.  The
\* descriptor of connection h is h.)
NoLocals ==
  [scanned_items |-> 0, operation |-> <<>>, argument |-> <<>>,
   call |-> "none", code |-> 0, nread |-> 0, opened |-> "none",
   fpos |-> 0, sha256 |-> SHA256_Init, wfail |-> 0,
   cell |-> 0, arg |-> 0, client |-> 0]

NoRes ==
  [ctx_new |-> 0, ctx_free |-> 0, ssl_new |-> 0, ssl_free |-> 0,
   sock |-> 0, close |-> 0]

\* SSL_write(ssl, data, n): one record of the reply stream
SSL_write(ch, data) == [ch EXCEPT !.s2c = Append(@, data)]

\* a connection both ends have closed holds no data any more
Closed(ch) ==
  IF ch.cClosed /\ ch.sClosed THEN [ch EXCEPT !.c2s = <<>>, !.s2c = <<>>]
  ELSE ch

\* ------------------------------------------------------- server: main()
\* A loop that hands every handler the address of one and the same cell
main_accept_SharedCell(h) ==
  /\ srv = "running"
  /\ chan[h].state = "pending"
  /\ hpc[h] = "none"
  /\ chan' = [chan EXCEPT ![h].state = "accepted"]
  /\ hpc' = [hpc EXCEPT ![h] = "start"]
  /\ res' = [res EXCEPT ![h].sock = 1]
  /\ hloc' = [hloc EXCEPT ![h].arg = 1, ![1].cell = h]
  /\ UNCHANGED <<srv, dir, cliVars, peer>>

\* accept() returns a connection and pthread_create starts its handler,
\* which is given the descriptor through its own heap cell: malloc, store
\* the descriptor, pass the cell's address.
main_accept(h) ==
  /\ srv = "running"
  /\ chan[h].state = "pending"
  /\ hpc[h] = "none"
  /\ chan' = [chan EXCEPT ![h].state = "accepted"]
  /\ hpc' = [hpc EXCEPT ![h] = "start"]
  /\ res' = [res EXCEPT ![h].sock = 1]
  /\ hloc' = [hloc EXCEPT ![h].arg = h, ![h].cell = h]
  /\ UNCHANGED <<srv, dir, cliVars, peer>>

\* accept() fails: perror, free, continue
main_accept_failed ==
  /\ srv = "running"
  /\ UNCHANGED vars

\* ------------------------------------------------ server: handle_client
\* client = *(int*)client_socket; free(client_socket); then
\* create_new_context, configure_context, SSL_new, SSL_set_fd.  A context
\* that cannot be created or configured ends the process (exit).
handle_client_setup(h) ==
  /\ srv = "running"
  /\ hpc[h] = "start"
  /\ hloc' = [hloc EXCEPT ![h].client = hloc[hloc[h].arg].cell,
                          ![hloc[h].arg].cell = -1]
  /\ \E ok \in BOOLEAN :
       IF ok
          THEN /\ res' = [res EXCEPT ![h].ctx_new = @ + 1, ![h].ssl_new = @ + 1]
               /\ hpc' = [hpc EXCEPT ![h] = "ssl_accept"]
               /\ srv' = srv
          ELSE /\ srv' = "exited"
               /\ UNCHANGED <<res, hpc>>
  /\ UNCHANGED <<dir, chan, cliVars, peer>>

\* SSL_accept(ssl) <= 0: log, skip the request; otherwise handle it
handle_client_accept(h) ==
  /\ srv = "running"
  /\ hpc[h] = "ssl_accept"
  /\ chan[h].hs = "none"
  /\ \E ok \in BOOLEAN :
       /\ chan' = [chan EXCEPT ![h].hs = IF ok THEN "ok" ELSE "fail"]
       /\ hpc' = [hpc EXCEPT ![h] = IF ok THEN "rpc" ELSE "cleanup"]
  /\ UNCHANGED <<srv, dir, hloc, res, cliVars, peer>>

\* A handle_client that goes back to read another request instead of
\* closing the session
handle_client_cleanup_ReadAgain(h) ==
  /\ srv = "running"
  /\ hpc[h] = "cleanup"
  /\ hpc' = [hpc EXCEPT ![h] = IF chan[h].hs = "ok" THEN "rpc" ELSE "done"]
  /\ UNCHANGED <<srv, dir, chan, hloc, res, cliVars, peer>>

\* A handle_client that ends without SSL_CTX_free(ctx)
handle_client_cleanup_NoCtxFree(h) ==
  /\ srv = "running"
  /\ hpc[h] = "cleanup"
  /\ res' = [res EXCEPT ![h].ssl_free = @ + 1,
                        ![hloc[h].client].close = @ + 1]
  /\ chan' = [chan EXCEPT ![hloc[h].client] =
                Closed([@ EXCEPT !.sClosed = TRUE])]
  /\ hpc' = [hpc EXCEPT ![h] = "done"]
  /\ hloc' = [hloc EXCEPT ![h] = NoLocals]
  /\ UNCHANGED <<srv, dir, cliVars, peer>>

\* SSL_free(ssl); close(client); SSL_CTX_free(ctx); pthread_exit
handle_client_cleanup(h) ==
  /\ srv = "running"
  /\ hpc[h] = "cleanup"
  /\ res' = [res EXCEPT ![h].ssl_free = @ + 1, ![h].ctx_free = @ + 1,
                        ![hloc[h].client].close = @ + 1]
  /\ chan' = [chan EXCEPT ![hloc[h].client] =
                Closed([@ EXCEPT !.sClosed = TRUE])]
  /\ hpc' = [hpc EXCEPT ![h] = "done"]
  /\ hloc' = [hloc EXCEPT ![h] = NoLocals]
  /\ UNCHANGED <<srv, dir, cliVars, peer>>

\* ------------------------------------------- server: handle_rpc_request
\* One SSL_read into the uninitialized buffer, sscanf, and the dispatch.
\* The read returns when the peer has sent a record or closed; the buffer
\* is not terminated, so sscanf goes on into what the stack held (Residue).
\* An error reply is SSL_write(ssl, errorMsg, sizeof(errorMsg)).
handle_rpc_request(h) ==
  /\ srv = "running"
  /\ hpc[h] = "rpc"
  /\ Len(chan[h].c2s) > hloc[h].nread \/ chan[h].cClosed
  /\ \E tail \in Residue :
       LET received == IF Len(chan[h].c2s) > hloc[h].nread
                          THEN chan[h].c2s[hloc[h].nread + 1] ELSE <<>>
           buffer == Take(received, BUFFER_SIZE) \o tail
           sc == sscanf_request(CStr(buffer))
           d == dispatch(sc)
           errorMsg(b) ==
             errorMsgBuffer(sprintf_s_d(ERROR_RPC_ERROR, d.code), b)
       IN  /\ hloc' = [hloc EXCEPT ![h] =
                         [@ EXCEPT !.scanned_items = sc.scanned_items,
                                   !.operation = sc.operation,
                                   !.argument = sc.argument,
                                   !.call = d.call, !.code = d.code,
                                   !.nread = @ + 1]]
           /\ IF d.call = "error"
                 THEN /\ \E b \in UninitBytes :
                           chan' = [chan EXCEPT ![h] = SSL_write(@, errorMsg(b))]
                      /\ hpc' = [hpc EXCEPT ![h] = "cleanup"]
                 ELSE /\ chan' = chan
                      /\ hpc' = [hpc EXCEPT ![h] = d.call]
  /\ UNCHANGED <<srv, dir, res, cliVars, peer>>

\* list_files(ssl): opendir may fail (perror, return); else one SSL_write
\* per listed name
list_files(h) ==
  /\ srv = "running"
  /\ hpc[h] = "list_files"
  /\ \E opened \in BOOLEAN :
       /\ hloc' = [hloc EXCEPT ![h].opened = IF opened THEN "dir" ELSE "failed"]
       /\ chan' = [chan EXCEPT ![h].s2c =
                     IF opened THEN @ \o list_files_records(dir) ELSE @]
  /\ hpc' = [hpc EXCEPT ![h] = "cleanup"]
  /\ UNCHANGED <<srv, dir, res, cliVars, peer>>

\* search_files(ssl, argument)
search_files(h) ==
  /\ srv = "running"
  /\ hpc[h] = "search_files"
  /\ \E opened \in BOOLEAN :
       /\ hloc' = [hloc EXCEPT ![h].opened = IF opened THEN "dir" ELSE "failed"]
       /\ chan' = [chan EXCEPT ![h].s2c =
                     IF opened
                        THEN @ \o search_files_records(dir, hloc[h].argument)
                        ELSE @]
  /\ hpc' = [hpc EXCEPT ![h] = "cleanup"]
  /\ UNCHANGED <<srv, dir, res, cliVars, peer>>

\* send_file_with_hash(ssl, argument), up to the loop: fopen; when it
\* fails, "FILEERROR <errno>" is written with its strlen and the function
\* returns.
send_file_with_hash(h) ==
  /\ srv = "running"
  /\ hpc[h] = "send_file_with_hash"
  /\ LET filename == hloc[h].argument
         errorMsg == snprintf(BUFFER_SIZE, sprintf_s_d(ERROR_FILE_ERROR, ENOENT))
     IN  IF FileExists(dir, filename)
            THEN /\ hloc' = [hloc EXCEPT ![h].opened = "file", ![h].fpos = 0,
                                         ![h].sha256 = SHA256_Init]
                 /\ hpc' = [hpc EXCEPT ![h] = "send_loop"]
                 /\ chan' = chan
            ELSE /\ hloc' = [hloc EXCEPT ![h].opened = "failed"]
                 /\ hpc' = [hpc EXCEPT ![h] = "cleanup"]
                 /\ chan' = [chan EXCEPT ![h] = SSL_write(@, errorMsg)]
  /\ UNCHANGED <<srv, dir, res, cliVars, peer>>

\* SSL_write(ssl, data, n) of the transfer: the record is sent; once the
\* peer is gone the call may still be taken or fail, and after a failure
\* every later call on that connection fails.  The return value is not
\* looked at.
WriteOutcomes(ch, loc) ==
  IF loc.wfail > 0 THEN {FALSE}
  ELSE IF ch.cClosed THEN BOOLEAN
  ELSE {TRUE}

\* A loop of send_file_with_hash that sends the chunks without hashing them
send_file_chunk_NoUpdate(h) ==
  /\ srv = "running"
  /\ hpc[h] = "send_loop"
  /\ \E sent \in WriteOutcomes(chan[h], hloc[h]) :
       LET content == FileBytes(dir, hloc[h].argument)
           bytes == Min(BUFFER_SIZE, Len(content) - hloc[h].fpos)
           buffer == SubSeq(content, hloc[h].fpos + 1, hloc[h].fpos + bytes)
           hash == SHA256_Final(hloc[h].sha256)
           wfail == hloc[h].wfail + (IF sent THEN 0 ELSE 1)
       IN  IF bytes > 0
              THEN /\ chan' = [chan EXCEPT ![h] =
                                IF sent THEN SSL_write(@, buffer) ELSE @]
                   /\ hloc' = [hloc EXCEPT ![h].fpos = @ + bytes,
                                           ![h].wfail = wfail]
                   /\ hpc' = hpc
              ELSE /\ chan' = [chan EXCEPT ![h] =
                                IF sent THEN SSL_write(@, hash) ELSE @]
                   /\ hloc' = [hloc EXCEPT ![h].opened = "closed",
                                           ![h].wfail = wfail]
                   /\ hpc' = [hpc EXCEPT ![h] = "cleanup"]
  /\ UNCHANGED <<srv, dir, res, cliVars, peer>>

\* One turn of the loop of send_file_with_hash: fread of up to BUFFER_SIZE
\* bytes; a chunk is written and hashed, whatever the write returned; at end
\* of file the digest is written and the file closed.
send_file_chunk(h) ==
  /\ srv = "running"
  /\ hpc[h] = "send_loop"
  /\ \E sent \in WriteOutcomes(chan[h], hloc[h]) :
       LET content == FileBytes(dir, hloc[h].argument)
           bytes == Min(BUFFER_SIZE, Len(content) - hloc[h].fpos)
           buffer == SubSeq(content, hloc[h].fpos + 1, hloc[h].fpos + bytes)
           hash == SHA256_Final(hloc[h].sha256)
           wfail == hloc[h].wfail + (IF sent THEN 0 ELSE 1)
       IN  IF bytes > 0
              THEN /\ chan' = [chan EXCEPT ![h] =
                                IF sent THEN SSL_write(@, buffer) ELSE @]
                   /\ hloc' = [hloc EXCEPT
                                 ![h].sha256 = SHA256_Update(@, buffer),
                                 ![h].fpos = @ + bytes,
                                 ![h].wfail = wfail]
                   /\ hpc' = hpc
              ELSE /\ chan' = [chan EXCEPT ![h] =
                                IF sent THEN SSL_write(@, hash) ELSE @]
                   /\ hloc' = [hloc EXCEPT ![h].opened = "closed",
                                           ![h].wfail = wfail]
                   /\ hpc' = [hpc EXCEPT ![h] = "cleanup"]
  /\ UNCHANGED <<srv, dir, res, cliVars, peer>>

Handler(h) ==
  \/ handle_client_setup(h)
  \/ handle_client_accept(h)
  \/ handle_rpc_request(h)
  \/ list_files(h)
  \/ search_files(h)
  \/ send_file_with_hash(h)
  \/ send_file_chunk(h)
  \/ handle_client_cleanup(h)

\* ------------------------------------------------------------ a raw peer
\* Requests a peer may send in one record: every operation word, known or
\* not, alone or followed by an argument, and requests of white space only.
PeerOps ==
  { RPC_LIST_OPERATION, RPC_SEARCH_OPERATION, RPC_DOWNLOAD_OPERATION,
    <<70,79,79>>, <<108,105,115,116>> }               \* "FOO", "list"

PeerArgs ==
  { <<>>, <<SP>>, <<SP,97>>, <<SP,65>>, <<SP>> \o Name_a, <<SP>> \o Name_c,
    <<SP>> \o Name_my, <<SP>> \o Name_b, <<SP,SP,97,LF,98>> }

Requests ==
  { op \o arg : op \in PeerOps, arg \in PeerArgs } \cup { <<SP>>, <<LF>> }

\* the peer writes one request after the handshake
peer_send(h) ==
  /\ peer = "connected"
  /\ chan[h].hs = "ok"
  /\ \E r \in Requests :
       chan' = [chan EXCEPT ![h].c2s = Append(@, r)]
  /\ peer' = "sent"
  /\ UNCHANGED <<srvVars, cliVars>>

\* the peer closes without sending
peer_close(h) ==
  /\ peer = "connected"
  /\ chan[h].hs = "ok"
  /\ chan' = [chan EXCEPT ![h].cClosed = TRUE]
  /\ peer' = "closed"
  /\ UNCHANGED <<srvVars, cliVars>>

\* the peer goes away after its request, while the server is not done
peer_reset(h) ==
  /\ peer = "sent"
  /\ chan[h].c2s # <<>>
  /\ ~chan[h].cClosed
  /\ ~chan[h].sClosed
  /\ chan' = [chan EXCEPT ![h].cClosed = TRUE]
  /\ peer' = "gone"
  /\ UNCHANGED <<srvVars, cliVars>>

\* ------------------------------------------------------- client: parsing
LIST_MP3S == 1
SEARCH_MP3S == 2
DOWNLOAD_MP3 == 3
QUIT_PROGRAM == 0

DEFAULT_DOWNLOAD_LOCATION ==
  <<100,111,119,110,108,111,97,100,101,100,45,109,112,51,115>>

\* the value of a run of decimal digits
RECURSIVE DigitsValue(_)
DigitsValue(ds) ==
  IF ds = <<>> THEN 0
  ELSE DigitsValue(SubSeq(ds, 1, Len(ds) - 1)) * 10 + (ds[Len(ds)] - 48)

\* sscanf(buffer, "%10s %d", serverError, &serverErrno) on the C string s:
\* which of the two are assigned, and their values
sscanf_error(s) ==
  LET i1 == SkipSpace(s, 1)
      e1 == TokenEnd(s, i1, 10)
      i2 == SkipSpace(s, e1)
      signed == i2 <= Len(s) /\ s[i2] \in {43, MINUS}
      d1 == IF signed THEN i2 + 1 ELSE i2
      d2 == FirstAt(s, d1, Byte \ Digit)
      value == DigitsValue(SubSeq(s, d1, d2 - 1))
  IN  IF i1 > Len(s)
         THEN [tagSet |-> FALSE, tag |-> <<>>, codeSet |-> FALSE, code |-> 0]
      ELSE IF d2 = d1
         THEN [tagSet |-> TRUE, tag |-> SubSeq(s, i1, e1 - 1),
               codeSet |-> FALSE, code |-> 0]
      ELSE [tagSet |-> TRUE, tag |-> SubSeq(s, i1, e1 - 1), codeSet |-> TRUE,
            code |-> IF signed /\ s[i2] = MINUS THEN 0 - value ELSE value]

\* sscanf(buffer, "%s", fileName): the first word of the line typed
sscanf_word(s) ==
  LET i1 == SkipSpace(s, 1)
  IN  SubSeq(s, i1, TokenEnd(s, i1, -1) - 1)

\* the diagnostic downloadMP3 prints for the code of an RPCERROR record
rpc_error_message(serverErrno) ==
  IF serverErrno = RPC_ERROR_BAD_OPERATION THEN "Bad Operation"
  ELSE IF serverErrno = RPC_ERROR_TOO_FEW_ARGS THEN "Too few arguments"
  ELSE IF serverErrno = RPC_ERROR_TOO_MANY_ARGS THEN "Too many arguments"
  ELSE "none"

\* a char array no statement has written yet, and what it may hold
Unassigned == <<-1>>

UninitStrings == { <<>>, ERROR_FILE_ERROR }

\* the lines a user types at the download prompt (without the line end)
DownloadInputs ==
  { Name_a, Name_b, Name_A, Name_c, Name_my, Name_e, Name_f, Name_g }

ClientFiles == { sscanf_word(l) : l \in DownloadInputs }

NoFile == [exists |-> FALSE, bytes |-> <<>>]

NoClient ==
  [op |-> 0, input |-> <<>>, fileName |-> <<>>, request |-> <<>>,
   writefd |-> -1, serverError |-> Unassigned, serverErrno |-> 0,
   rd |-> 0, downloadTries |-> 0, attempts |-> 0, result |-> "none",
   diag |-> "none", status |-> 0, conn |-> 0, connected |-> -1,
   nul |-> -1, oob |-> "none"]

\* the condition of main's retry loop, given what downloadMP3 returned
main_download_retry(result, downloadTries) ==
  result # EXIT_SUCCESS /\ downloadTries <= MAX_RETRIES

\* close_ssl_connection: SSL_free, SSL_CTX_free, close
close_ssl_connection(r) ==
  [r EXCEPT !.ssl_free = @ + 1, !.ctx_free = @ + 1, !.close = @ + 1]

\* buffer[rcount] = '\0' in downloadMP3: the index the 0 byte is stored at
TerminatorIndex(rcount) == rcount

\* what a store at index i of the BUFFER_SIZE-byte buffer writes to: the
\* buffer, or, past its end, the first byte of whichever local the build
\* has put after it (fileName with gcc -O0, request with gcc -O2)
OutOfBounds(i) ==
  IF i \in 0..(BUFFER_SIZE - 1) THEN {"none"}
  ELSE {"fileName[0]", "request[0]"}

\* exit() with the locals loc: the process ends and the kernel closes its
\* sockets
ClientExitFrom(loc, status, diag) ==
  /\ cpc' = "exited"
  /\ cloc' = [loc EXCEPT !.status = status, !.diag = diag]
  /\ chan' = [h \in Conn |->
                IF chan[h].state # "free" /\ cres[h].sock = 1 /\ cres[h].close = 0
                   THEN Closed([chan[h] EXCEPT !.cClosed = TRUE])
                   ELSE chan[h]]

\* exit(): the process ends and the kernel closes its sockets
ClientExit(status, diag) ==
  /\ cpc' = "exited"
  /\ cloc' = [cloc EXCEPT !.status = status, !.diag = diag]
  /\ chan' = [h \in Conn |->
                IF chan[h].state # "free" /\ cres[h].sock = 1 /\ cres[h].close = 0
                   THEN Closed([chan[h] EXCEPT !.cClosed = TRUE])
                   ELSE chan[h]]

\* ------------------------------------------------------- client: main()
\* promptUser and the switch of main's loop; for DOWNLOAD_MP3 the attempt
\* counter is set to 1 before the retry loop.
main_menu ==
  /\ cpc = "menu"
  /\ \E userChoice \in {LIST_MP3S, SEARCH_MP3S, DOWNLOAD_MP3, QUIT_PROGRAM} :
       /\ cloc' = [cloc EXCEPT
                     !.op = userChoice,
                     !.downloadTries = IF userChoice = DOWNLOAD_MP3 THEN 1 ELSE @,
                     !.attempts = 0, !.result = "none", !.input = <<>>,
                     !.fileName = <<>>, !.request = <<>>, !.writefd = -1,
                     !.serverError = Unassigned, !.serverErrno = 0, !.rd = 0]
       /\ cpc' = IF userChoice = QUIT_PROGRAM THEN "quit" ELSE "init"
  /\ UNCHANGED <<srvVars, chan, cres, disk, peer, play>>

\* after the loop: close the connection when one is marked connected
main_quit ==
  /\ cpc = "quit"
  /\ cpc' = "exited"
  /\ IF cloc.connected = 1
        THEN /\ cres' = [cres EXCEPT ![cloc.conn] = close_ssl_connection(@)]
             /\ chan' = [chan EXCEPT ![cloc.conn] =
                           Closed([@ EXCEPT !.cClosed = TRUE])]
        ELSE UNCHANGED <<cres, chan>>
  /\ cloc' = [cloc EXCEPT !.status = EXIT_SUCCESS, !.connected = -1]
  /\ UNCHANGED <<srvVars, disk, peer, play>>

\* initialize_connection up to connect(): a new context, SSL object and
\* socket; connect() fails (exit) when no server listens.
initialize_connection ==
  /\ cpc = "init"
  /\ IF srv = "exited"
        THEN /\ ClientExit(EXIT_FAILURE, "Cannot connect")
             /\ UNCHANGED cres
        ELSE \E h \in Conn :
               /\ chan[h].state = "free"
               /\ \A g \in 1..(h - 1) : chan[g].state # "free"
               /\ chan' = [chan EXCEPT ![h].state = "pending"]
               /\ cres' = [cres EXCEPT ![h] =
                             [@ EXCEPT !.ctx_new = @ + 1, !.ssl_new = @ + 1,
                                       !.sock = 1]]
               /\ cloc' = [cloc EXCEPT
                             !.conn = h,
                             !.attempts = IF cloc.op = DOWNLOAD_MP3
                                             THEN @ + 1 ELSE @]
               /\ cpc' = "connect"
  /\ UNCHANGED <<srvVars, disk, peer, play>>

\* initialize_connection, SSL_connect: 1 marks the connection connected,
\* anything else exits
SSL_connect ==
  /\ cpc = "connect"
  /\ chan[cloc.conn].hs # "none" \/ srv = "exited"
  /\ IF chan[cloc.conn].hs = "ok"
        THEN /\ cloc' = [cloc EXCEPT !.connected = 1]
             /\ cpc' = "send"
             /\ chan' = chan
        ELSE ClientExit(EXIT_FAILURE, "Could not establish SSL session")
  /\ UNCHANGED <<srvVars, cres, disk, peer, play>>

\* requestAvailableDownloads: write "LIST" and close
requestAvailableDownloads ==
  /\ cpc = "send"
  /\ cloc.op = LIST_MP3S
  /\ LET request == RPC_LIST_OPERATION
     IN  /\ chan' = [chan EXCEPT ![cloc.conn] =
                       Closed([@ EXCEPT !.c2s = Append(@, CStr(request)),
                                        !.cClosed = TRUE])]
         /\ cloc' = [cloc EXCEPT !.request = request, !.connected = -1]
  /\ cres' = [cres EXCEPT ![cloc.conn] = close_ssl_connection(@)]
  /\ cpc' = "menu"
  /\ UNCHANGED <<srvVars, disk, peer, play>>

\* searchAvailableDownloads: write "SEARCH Sprouts" and close
searchAvailableDownloads ==
  /\ cpc = "send"
  /\ cloc.op = SEARCH_MP3S
  /\ LET requestMessage == RPC_SEARCH_OPERATION \o <<SP>> \o SearchTerm
     IN  /\ chan' = [chan EXCEPT ![cloc.conn] =
                       Closed([@ EXCEPT !.c2s = Append(@, CStr(requestMessage)),
                                        !.cClosed = TRUE])]
         /\ cloc' = [cloc EXCEPT !.request = requestMessage,
                                 !.input = SearchTerm, !.connected = -1]
  /\ cres' = [cres EXCEPT ![cloc.conn] = close_ssl_connection(@)]
  /\ cpc' = "menu"
  /\ UNCHANGED <<srvVars, disk, peer, play>>

\* A downloadMP3 that opens the local file before it sends the request
downloadMP3_send_OpensFile ==
  /\ cpc = "send"
  /\ cloc.op = DOWNLOAD_MP3
  /\ \E line \in DownloadInputs :
       LET fileName == sscanf_word(CStr(line))
           request == RPC_DOWNLOAD_OPERATION \o <<SP>> \o fileName
       IN  /\ chan' = [chan EXCEPT ![cloc.conn].c2s = Append(@, CStr(request))]
           /\ cloc' = [cloc EXCEPT !.input = line, !.fileName = fileName,
                                   !.request = request, !.writefd = 3,
                                   !.serverError = Unassigned, !.rd = 0,
                                   !.nul = -1, !.oob = "none"]
           /\ disk' = [disk EXCEPT ![fileName] =
                         [exists |-> TRUE, bytes |-> <<>>]]
  /\ cpc' = "recv"
  /\ UNCHANGED <<srvVars, cres, peer, play>>

\* downloadMP3 up to the receive loop: the name is the first word of the
\* line typed; "DOWNLOAD <name>" is written with its strlen.
downloadMP3_send ==
  /\ cpc = "send"
  /\ cloc.op = DOWNLOAD_MP3
  /\ \E line \in DownloadInputs :
       LET fileName == sscanf_word(CStr(line))
           request == RPC_DOWNLOAD_OPERATION \o <<SP>> \o fileName
       IN  /\ chan' = [chan EXCEPT ![cloc.conn].c2s = Append(@, CStr(request))]
           /\ cloc' = [cloc EXCEPT !.input = line, !.fileName = fileName,
                                   !.request = request, !.writefd = -1,
                                   !.serverError = Unassigned, !.rd = 0,
                                   !.nul = -1, !.oob = "none"]
  /\ cpc' = "recv"
  /\ UNCHANGED <<srvVars, cres, disk, peer, play>>

\* One SSL_read of downloadMP3's loop, and what follows it.
\*   rcount > 0: buffer[rcount] is set to 0 (a store past the buffer when
\*               rcount is BUFFER_SIZE), then
\*               the chunk is scanned for an error record (exit on one);
\*               else the file is opened if it is not yet, and the chunk
\*               is written to it;
\*   rcount = 0: close_ssl_connection, return EXIT_SUCCESS;
\*   rcount < 0: return EXIT_FAILURE, the connection left as it is.
\* After a return, which ends the life of the buffer, main's loop calls
\* downloadMP3 again or goes back to the menu.  At the end of the stream SSL_read returns 0 or a negative value:
\* the server closes its socket without a close_notify.
downloadMP3_recv ==
  /\ cpc = "recv"
  /\ LET ch == chan[cloc.conn]
     IN
     \/ /\ Len(ch.s2c) > cloc.rd
        /\ LET buffer == ch.s2c[cloc.rd + 1]
               rcount == Len(buffer)
               sc == sscanf_error(CStr(buffer))
               serverError == IF sc.tagSet THEN sc.tag ELSE cloc.serverError
               serverErrno == IF sc.codeSet THEN sc.code ELSE cloc.serverErrno
               fname == cloc.fileName
           IN  \E hit \in OutOfBounds(TerminatorIndex(rcount)) :
               \E tag \in (IF serverError = Unassigned THEN UninitStrings
                             ELSE {serverError}) :
               \E io \in (IF tag \in {ERROR_FILE_ERROR, ERROR_RPC_ERROR}
                              THEN {"ok"}
                           ELSE IF cloc.writefd < 1 THEN {"ok", "open", "write"}
                           ELSE {"ok", "write"}) :
                   LET loc == [cloc EXCEPT !.nul = TerminatorIndex(rcount),
                                           !.oob = hit]
                   IN
                     IF strcmp0(tag, ERROR_FILE_ERROR)
                        THEN /\ ClientExitFrom(loc, EXIT_FAILURE, "file error")
                             /\ disk' = disk
                     ELSE IF strcmp0(tag, ERROR_RPC_ERROR)
                        THEN /\ ClientExitFrom(loc, EXIT_FAILURE,
                                               rpc_error_message(serverErrno))
                             /\ disk' = disk
                     ELSE IF cloc.writefd < 1 /\ io = "open"
                        THEN /\ ClientExitFrom(loc, EXIT_FAILURE,
                                               "Could not open file")
                             /\ disk' = disk
                     ELSE IF io = "write"
                        THEN /\ ClientExitFrom(loc, EXIT_FAILURE,
                                               "Error while writing")
                             /\ disk' = [disk EXCEPT ![fname] =
                                          IF cloc.writefd < 1
                                             THEN [exists |-> TRUE, bytes |-> <<>>]
                                             ELSE @]
                     ELSE /\ disk' = [disk EXCEPT ![fname] =
                                        [exists |-> TRUE,
                                         bytes |-> (IF cloc.writefd < 1
                                                       THEN <<>> ELSE @.bytes)
                                                   \o buffer]]
                          /\ cloc' = [loc EXCEPT !.serverError = serverError,
                                                  !.serverErrno = serverErrno,
                                                  !.writefd = 3, !.rd = @ + 1]
                          /\ cpc' = "recv"
                          /\ chan' = chan
        /\ cres' = cres
     \/ /\ Len(ch.s2c) = cloc.rd
        /\ ch.sClosed
        /\ \E rcount \in {0, -1} :
             IF rcount < 0
                THEN /\ cloc' = [cloc EXCEPT !.result = "failure",
                                             !.nul = -1, !.oob = "none"]
                     /\ cpc' = IF main_download_retry(EXIT_FAILURE,
                                                      cloc.downloadTries)
                                  THEN "init" ELSE "menu"
                     /\ UNCHANGED <<chan, cres>>
                ELSE /\ cloc' = [cloc EXCEPT !.result = "success",
                                             !.connected = -1,
                                             !.nul = -1, !.oob = "none"]
                     /\ cpc' = IF main_download_retry(EXIT_SUCCESS,
                                                      cloc.downloadTries)
                                  THEN "init" ELSE "menu"
                     /\ chan' = [chan EXCEPT ![cloc.conn] =
                                   Closed([@ EXCEPT !.cClosed = TRUE])]
                     /\ cres' = [cres EXCEPT ![cloc.conn] =
                                   close_ssl_connection(@)]
        /\ disk' = disk
  /\ UNCHANGED <<srvVars, peer, play>>

Client ==
  \/ main_menu
  \/ main_quit
  \/ initialize_connection
  \/ SSL_connect
  \/ requestAvailableDownloads
  \/ searchAvailableDownloads
  \/ downloadMP3_send
  \/ downloadMP3_recv


\* ----------------------------------------------------- client: playback
PLAY_MP3 == 4
STOP_MP3 == 5

Threads == 1..MaxThreads

\* main's stopFlag (which stopPlaying points to), ptid, and the playback
\* threads created so far.  ptid = 0: the variable holds no thread id (it
\* is declared without a value).  pc is main's position among the
\* statements of the PLAY_MP3 and STOP_MP3 cases; ret is where stopMP3
\* returns to; last is what the last statement reported; acc is the last
\* access made to the flag.
NoPlay ==
  [pc |-> "menu", ret |-> "menu", stopFlag |-> -1, ptid |-> 0,
   thr |-> [t \in Threads |-> "none"], last |-> "none",
   acc |-> [by |-> "none", op |-> "none", held |-> FALSE]]

\* an access to the flag (*stopPlaying, main's stopFlag): who makes it, a
\* read or a write, and whether it is made between pthread_mutex_lock and
\* pthread_mutex_unlock of mutexPlaying
Access(by, op, held) == [by |-> by, op |-> op, held |-> held]

nonPlayVars == <<srv, dir, chan, hpc, hloc, res, cpc, cloc, cres, disk, peer>>

\* pthread_join(*ptid) has a thread to wait for: one that was created and
\* not joined yet
Joinable(p) == p.ptid \in Threads /\ p.thr[p.ptid] \in {"running", "exited"}

\* the process ends: its threads end with it
ProcessEnds(thr) ==
  [t \in Threads |-> IF thr[t] = "running" THEN "killed" ELSE thr[t]]

\* A PLAY_MP3 case that goes on to choose and play without stopping what
\* is playing
main_play_NoStop ==
  /\ play.pc = "menu"
  /\ play' = [play EXCEPT !.pc = "choose", !.ret = "choose"]
  /\ UNCHANGED nonPlayVars

\* case PLAY_MP3, first statement: if (stopFlag == 0) stopMP3(&ptid);
main_play ==
  /\ play.pc = "menu"
  /\ play' = [play EXCEPT !.pc = IF play.stopFlag = 0 THEN "stopMP3"
                                                      ELSE "choose",
                          !.ret = "choose",
                          !.acc = Access("main", "read", FALSE)]
  /\ UNCHANGED nonPlayVars

\* case STOP_MP3: if (stopFlag == 0) stopMP3(&ptid);
main_stop ==
  /\ play.pc = "menu"
  /\ play' = IF play.stopFlag = 0
                THEN [play EXCEPT !.pc = "stopMP3", !.ret = "menu",
                                  !.acc = Access("main", "read", FALSE)]
                ELSE [play EXCEPT !.last = "not called",
                                  !.acc = Access("main", "read", FALSE)]
  /\ UNCHANGED nonPlayVars

\* case QUIT_PROGRAM: the loop ends and main returns
main_play_quit ==
  /\ play.pc = "menu"
  /\ play' = [play EXCEPT !.pc = "exited", !.thr = ProcessEnds(@)]
  /\ UNCHANGED nonPlayVars

\* chooseFromDownloadedMP3s: EXIT_SUCCESS with a file chosen, EXIT_FAILURE
\* on "q", exit() when the download directory cannot be read
chooseFromDownloadedMP3s ==
  /\ play.pc = "choose"
  /\ \E r \in {"EXIT_SUCCESS", "EXIT_FAILURE", "exit"} :
       play' = IF r = "EXIT_SUCCESS" THEN [play EXCEPT !.pc = "playMP3"]
               ELSE IF r = "EXIT_FAILURE"
                  THEN [play EXCEPT !.pc = "menu", !.last = "not chosen"]
               ELSE [play EXCEPT !.pc = "exited", !.thr = ProcessEnds(@)]
  /\ UNCHANGED nonPlayVars

\* playMP3: lock, *stopPlaying = 0, unlock, pthread_create.  On failure
\* the flag stays 0 and *ptid is what it was or indeterminate.
playMP3 ==
  /\ play.pc = "playMP3"
  /\ \/ \E t \in Threads :
          /\ play.thr[t] = "none"
          /\ \A u \in 1..(t - 1) : play.thr[u] # "none"
          /\ play' = [play EXCEPT !.stopFlag = 0, !.ptid = t,
                                  !.thr[t] = "running", !.pc = "menu",
                                  !.last = "started",
                                  !.acc = Access("main", "write", TRUE)]
     \/ \E p \in {play.ptid, 0} :
          play' = [play EXCEPT !.stopFlag = 0, !.ptid = p, !.pc = "menu",
                               !.last = "Error creating playback thread",
                               !.acc = Access("main", "write", TRUE)]
  /\ UNCHANGED nonPlayVars

\* A stopMP3 that goes to the join without writing the flag
stopMP3_signal_NoFlag ==
  /\ play.pc = "stopMP3"
  /\ play' = [play EXCEPT !.pc = "join"]
  /\ UNCHANGED nonPlayVars

\* stopMP3, first part: lock, *stopPlaying = -1, unlock
stopMP3_signal ==
  /\ play.pc = "stopMP3"
  /\ play' = [play EXCEPT !.stopFlag = -1, !.pc = "join",
                          !.acc = Access("main", "write", TRUE)]
  /\ UNCHANGED nonPlayVars

\* stopMP3, second part: pthread_join(*ptid, NULL), "Audio stopped.",
\* return EXIT_SUCCESS.  The join waits until the thread has exited.  With
\* a ptid that names no joinable thread the behaviour is undefined: the
\* call returns or never does.
stopMP3_join ==
  /\ play.pc = "join"
  /\ IF Joinable(play)
        THEN /\ play.thr[play.ptid] = "exited"
             /\ play' = [play EXCEPT !.thr[play.ptid] = "joined",
                                     !.pc = play.ret,
                                     !.last = "Audio stopped"]
        ELSE \E returns \in BOOLEAN :
               play' = IF returns
                          THEN [play EXCEPT !.pc = play.ret,
                                            !.last = "Audio stopped"]
                          ELSE [play EXCEPT !.pc = "blocked"]
  /\ UNCHANGED nonPlayVars

\* playAudio(fileName, stopPlaying) polls the flag and returns once it is
\* no longer 0
playAudio(stopPlaying) == stopPlaying # 0

\* the poll of playAudio reads the flag with the mutex held
playAudio_poll == Access("thread", "read", TRUE)

\* thread_playMP3: playAudio returns on a stop request, then pthread_exit
thread_playMP3(t) ==
  /\ play.pc # "exited"
  /\ play.thr[t] = "running"
  /\ playAudio(play.stopFlag)
  /\ play' = [play EXCEPT !.thr[t] = "exited", !.acc = playAudio_poll]
  /\ UNCHANGED nonPlayVars

\* thread_playMP3: playAudio returns at the end of the file
thread_playMP3_end(t) ==
  /\ play.pc # "exited"
  /\ play.thr[t] = "running"
  /\ play' = [play EXCEPT !.thr[t] = "exited"]
  /\ UNCHANGED nonPlayVars
\* ------------------------------------------------- specification: server
\* One session of the server with a raw peer, for every served directory.
Init ==
  /\ srv = "running"
  /\ dir \in Directories
  /\ chan = [h \in Conn |-> IF h = 1 THEN [FreeChan EXCEPT !.state = "pending"]
                                     ELSE FreeChan]
  /\ hpc = [h \in Conn |-> "none"]
  /\ hloc = [h \in Conn |-> NoLocals]
  /\ res = [h \in Conn |-> NoRes]
  /\ cpc = "none"
  /\ cloc = NoClient
  /\ cres = [h \in Conn |-> NoRes]
  /\ disk = [f \in ClientFiles |-> NoFile]
  /\ peer = "connected"
  /\ play = NoPlay

Next ==
  \/ main_accept(1)
  \/ main_accept_failed
  \/ Handler(1)
  \/ peer_send(1)
  \/ peer_close(1)
  \/ peer_reset(1)

Spec == Init /\ [][Next]_vars

\* ------------------------------------------ specification: client/server
\* The client program against the server; the directory holds every kind
\* of file.
SampleDir ==
  << Entry(Name_a, "DT_REG"), Entry(Name_b, "DT_REG"), Entry(Name_txt, "DT_REG"),
     Entry(Name_A, "DT_REG"), Entry(Name_d, "DT_DIR"), Entry(Name_my, "DT_REG"),
     Entry(Name_e, "DT_REG"), Entry(Name_f, "DT_REG"), Entry(Name_g, "DT_REG") >>

ClientInit ==
  /\ srv = "running"
  /\ dir = SampleDir
  /\ chan = [h \in Conn |-> FreeChan]
  /\ hpc = [h \in Conn |-> "none"]
  /\ hloc = [h \in Conn |-> NoLocals]
  /\ res = [h \in Conn |-> NoRes]
  /\ cpc = "menu"
  /\ cloc = NoClient
  /\ cres = [h \in Conn |-> NoRes]
  /\ disk = [f \in ClientFiles |-> NoFile]
  /\ peer = "none"
  /\ play = NoPlay

ClientNext ==
  \/ \E h \in Conn : main_accept(h)
  \/ main_accept_failed
  \/ \E h \in Conn : Handler(h)
  \/ Client

ClientSpec == ClientInit /\ [][ClientNext]_vars


\* ------------------------------------------ specification: dispatcher
\* The accept loop with every connection of Conn waiting to be accepted at
\* once, so that the loop may accept them all before any handler has run;
\* a raw peer sends a request on one of them or closes it.
AcceptInit ==
  /\ srv = "running"
  /\ dir = SampleDir
  /\ chan = [h \in Conn |-> [FreeChan EXCEPT !.state = "pending"]]
  /\ hpc = [h \in Conn |-> "none"]
  /\ hloc = [h \in Conn |-> NoLocals]
  /\ res = [h \in Conn |-> NoRes]
  /\ cpc = "none"
  /\ cloc = NoClient
  /\ cres = [h \in Conn |-> NoRes]
  /\ disk = [f \in ClientFiles |-> NoFile]
  /\ peer = "connected"
  /\ play = NoPlay

AcceptNext ==
  \/ \E h \in Conn : main_accept(h)
  \/ main_accept_failed
  \/ \E h \in Conn : Handler(h)
  \/ \E h \in Conn : peer_send(h)
  \/ \E h \in Conn : peer_close(h)
  \/ \E h \in Conn : peer_reset(h)

AcceptSpec == AcceptInit /\ [][AcceptNext]_vars

\* ------------------------------------------------ specification: playback
\* The PLAY_MP3, STOP_MP3 and QUIT_PROGRAM cases of main's loop with the
\* playback threads.  A thread that is asked to stop gets to see the flag,
\* and main gets to run the statements of stopMP3.
PlayInit ==
  /\ srv = "running"
  /\ dir = SampleDir
  /\ chan = [h \in Conn |-> FreeChan]
  /\ hpc = [h \in Conn |-> "none"]
  /\ hloc = [h \in Conn |-> NoLocals]
  /\ res = [h \in Conn |-> NoRes]
  /\ cpc = "none"
  /\ cloc = NoClient
  /\ cres = [h \in Conn |-> NoRes]
  /\ disk = [f \in ClientFiles |-> NoFile]
  /\ peer = "none"
  /\ play = NoPlay

PlayNext ==
  \/ main_play
  \/ main_stop
  \/ main_play_quit
  \/ chooseFromDownloadedMP3s
  \/ playMP3
  \/ stopMP3_signal
  \/ stopMP3_join
  \/ \E t \in Threads : thread_playMP3(t)
  \/ \E t \in Threads : thread_playMP3_end(t)

PlaySpec ==
  /\ PlayInit /\ [][PlayNext]_vars
  /\ \A t \in Threads : WF_vars(thread_playMP3(t))
  /\ WF_vars(stopMP3_signal)
  /\ WF_vars(stopMP3_join)
\* ================================================================ claims
\* the request the peer of connection h sent, decoded as a C string of its
\* own bytes (what the sender meant, whatever the receiver's buffer held)
Sent(h) == sscanf_request(CStr(chan[h].c2s[1]))

\* the handler of h has returned from handle_rpc_request after its read
Replied(h) ==
  hpc[h] = "cleanup" /\ hloc[h].nread = 1 /\ Len(chan[h].c2s) >= 1

KnownOps ==
  { RPC_LIST_OPERATION, RPC_SEARCH_OPERATION, RPC_DOWNLOAD_OPERATION }

Text_RPCERROR_m3 == <<82,80,67,69,82,82,79,82,32,45,51>>   \* "RPCERROR -3"
Text_RPCERROR_m2 == <<82,80,67,69,82,82,79,82,32,45,50>>   \* "RPCERROR -2"

\* the reply of h is one record whose C string is text
RepliesWith(h, text) ==
  Len(chan[h].s2c) = 1 /\ CStr(chan[h].s2c[1]) = text

\* C1: when DOWNLOAD names a file the server does not have, the client,
\* having received the FILEERROR record, opens MAX_RETRIES further sessions
\* (one per retry) and then gives up, back at the menu.
C1_MissingFileRetriedMaxRetries ==
  (cloc.op = DOWNLOAD_MP3 /\ cloc.fileName = Name_c
     /\ cloc.diag = "file error" /\ cpc \in {"menu", "exited"})
  => (cloc.attempts = 1 + MAX_RETRIES /\ cpc = "menu")

\* C2: after a successful DOWNLOAD of a served file the local file holds
\* exactly the bytes of the served file.
C2_LocalFileEqualsServedFile ==
  (cpc = "menu" /\ cloc.op = DOWNLOAD_MP3 /\ cloc.result = "success"
     /\ FileExists(dir, cloc.fileName))
  => (disk[cloc.fileName].exists
      /\ disk[cloc.fileName].bytes = FileBytes(dir, cloc.fileName))

\* LIST's records, from the directory: the names of the regular files that
\* contain ".mp3", each followed by a line end, in directory order
C3_Listed ==
  LET listed(e) == e.d_type = "DT_REG" /\ strstr(e.d_name, MP3_EXT)
      sel == SelectSeq(dir, listed)
  IN  [i \in 1..Len(sel) |-> sel[i].d_name \o <<LF>>]

C3_Containing(records, t) ==
  LET contains(r) == strstr(SubSeq(r, 1, Len(r) - 1), t)
  IN  SelectSeq(records, contains)

\* C3: for every directory and search term, the records written for SEARCH
\* are the records of LIST whose name contains the term, in the same
\* order; LIST writes exactly the names with the ".mp3" marker; no record
\* of either lacks the marker.
C3_SearchIsListFiltered ==
  \A h \in Conn :
    (hpc[h] = "cleanup" /\ hloc[h].opened = "dir") =>
      /\ hloc[h].call = "list_files" => chan[h].s2c = C3_Listed
      /\ hloc[h].call = "search_files" =>
           chan[h].s2c = C3_Containing(C3_Listed, hloc[h].argument)
      /\ \A i \in 1..Len(chan[h].s2c) : strstr(chan[h].s2c[i], MP3_EXT)

C3_Witness ==
  \E h \in Conn :
    /\ hpc[h] = "cleanup" /\ hloc[h].opened = "dir"
    /\ hloc[h].call = "search_files"
    /\ Len(chan[h].s2c) >= 1
    /\ Len(chan[h].s2c) < Len(C3_Listed)
    /\ \E i \in 1..Len(dir) : ~strstr(dir[i].d_name, MP3_EXT)

\* C4: a request whose first word is none of LIST, SEARCH, DOWNLOAD is
\* answered with the RPC error BAD_OPERATION, with or without an argument.
C4_UnknownOperationIsBadOperation ==
  \A h \in Conn :
    (Replied(h) /\ Sent(h).scanned_items >= 1
       /\ Sent(h).operation \notin KnownOps)
    => RepliesWith(h, sprintf_s_d(ERROR_RPC_ERROR, RPC_ERROR_BAD_OPERATION))

\* C5: SEARCH or DOWNLOAD without an argument is answered with the RPC
\* error TOO_FEW_ARGS, and neither search_files nor send_file_with_hash is
\* called.
C5_MissingArgumentIsTooFewArgs ==
  \A h \in Conn :
    (Replied(h) /\ Sent(h).scanned_items = 1
       /\ Sent(h).operation \in {RPC_SEARCH_OPERATION, RPC_DOWNLOAD_OPERATION})
    => /\ hloc[h].call = "error"
       /\ RepliesWith(h, sprintf_s_d(ERROR_RPC_ERROR, RPC_ERROR_TOO_FEW_ARGS))

ListWithArgument(h) ==
  /\ Replied(h)
  /\ Sent(h).scanned_items = 2
  /\ Sent(h).operation = RPC_LIST_OPERATION

\* C6 as stated: LIST followed by a remainder is accepted and answered
\* with the listing of a bare LIST, not with an error record.
C6_ListWithArgumentAccepted ==
  \A h \in Conn :
    ListWithArgument(h) =>
      /\ hloc[h].call = "list_files"
      /\ hloc[h].opened = "dir" => chan[h].s2c = C3_Listed

\* C6 as amended: LIST followed by a remainder is rejected: list_files is
\* not called and the reply is the one record RPCERROR -3 (BAD_OPERATION).
C6_ListWithArgumentRejected ==
  \A h \in Conn :
    ListWithArgument(h) =>
      /\ hloc[h].call = "error"
      /\ hloc[h].opened = "none"
      /\ RepliesWith(h, Text_RPCERROR_m3)

C6_Witness ==
  \E h \in Conn : ListWithArgument(h) /\ Len(C3_Listed) >= 1

\* what the client's sscanf reads in the last record the server wrote
WireError(h) == sscanf_error(CStr(chan[h].s2c[Len(chan[h].s2c)]))

BadOperationReply(h) ==
  hpc[h] = "cleanup" /\ hloc[h].call = "error" /\ hloc[h].scanned_items = 2

TooFewArgsReply(h) ==
  hpc[h] = "cleanup" /\ hloc[h].call = "error" /\ hloc[h].scanned_items # 2

\* C7 as stated: the code on the wire is -1 for a bad operation.
C7_BadOperationIsMinusOne ==
  \A h \in Conn :
    BadOperationReply(h) => (WireError(h).codeSet /\ WireError(h).code = -1)

\* C7 as amended: the code of an RPCERROR record is -3 for a bad operation,
\* -2 for too few arguments and -1 for too many arguments (which the server
\* never sends), as the server writes it and as the client reads it.
C7_WireCodes ==
  /\ \A h \in Conn :
       /\ BadOperationReply(h) =>
            /\ WireError(h).tag = ERROR_RPC_ERROR
            /\ WireError(h).codeSet /\ WireError(h).code = -3
            /\ rpc_error_message(WireError(h).code) = "Bad Operation"
       /\ TooFewArgsReply(h) =>
            /\ WireError(h).tag = ERROR_RPC_ERROR
            /\ WireError(h).codeSet /\ WireError(h).code = -2
            /\ rpc_error_message(WireError(h).code) = "Too few arguments"
       /\ (hpc[h] = "cleanup" /\ hloc[h].call = "error") =>
            hloc[h].code \in {-3, -2}
  /\ rpc_error_message(-1) = "Too many arguments"
  /\ rpc_error_message(-2) = "Too few arguments"
  /\ rpc_error_message(-3) = "Bad Operation"

C7_Witness ==
  /\ \E h \in Conn : BadOperationReply(h)
  /\ \E h \in Conn : Len(chan[h].s2c) = 1 /\ WireError(h).code = -3

\* the session of h ended in an RPC error or a failed fopen
ErrorSession(h) ==
  /\ hpc[h] = "cleanup"
  /\ \/ hloc[h].call = "error"
     \/ hloc[h].call = "send_file_with_hash" /\ hloc[h].opened = "failed"

\* C8: in a session that ends in an error, the bytes the server writes are
\* exactly one record "<TAG> <code>" and nothing else.
C8_ErrorReplyIsExactlyOneRecord ==
  \A h \in Conn :
    ErrorSession(h) =>
      /\ Len(chan[h].s2c) = 1
      /\ WireError(h).tagSet /\ WireError(h).codeSet
      /\ WireError(h).tag \in {ERROR_FILE_ERROR, ERROR_RPC_ERROR}
      /\ chan[h].s2c[1] =
           WireError(h).tag \o <<SP>> \o FormatInt(WireError(h).code)

\* the operation word of a menu choice
OpWord(choice) ==
  IF choice = LIST_MP3S THEN RPC_LIST_OPERATION
  ELSE IF choice = SEARCH_MP3S THEN RPC_SEARCH_OPERATION
  ELSE RPC_DOWNLOAD_OPERATION

\* C9: the operation and argument the server decodes are those of the
\* request the client was asked to make (for DOWNLOAD the name typed, which
\* may contain spaces).
C9_DecodeOfEncodeIsRequest ==
  \A h \in Conn :
    (cloc.conn = h /\ cloc.request # <<>> /\ hloc[h].nread = 1) =>
      /\ hloc[h].operation = OpWord(cloc.op)
      /\ IF cloc.op = LIST_MP3S
            THEN hloc[h].scanned_items = 1
            ELSE hloc[h].scanned_items = 2 /\ hloc[h].argument = cloc.input

\* C10: a handler releases its SSL object, its context and its socket
\* exactly once on every path: never before it reaches the end of
\* handle_client, all three once it has; and the thread is always at one
\* of the steps that lead there.
C10_ReleasedExactlyOnce ==
  \A h \in Conn :
    /\ hpc[h] = "done" =>
         /\ res[h].ssl_new = 1 /\ res[h].ssl_free = 1
         /\ res[h].ctx_new = 1 /\ res[h].ctx_free = 1
         /\ res[h].sock = 1 /\ res[h].close = 1
         /\ chan[h].sClosed
    /\ hpc[h] # "done" =>
         res[h].ssl_free = 0 /\ res[h].ctx_free = 0 /\ res[h].close = 0
    /\ hpc[h] \in {"none", "start", "ssl_accept", "rpc", "list_files",
                   "search_files", "send_file_with_hash", "send_loop",
                   "cleanup", "done"}

C10_Witness ==
  \E h \in Conn :
    /\ hpc[h] = "done" /\ res[h].close = 1
    /\ Len(chan[h].s2c) = 1
    /\ sscanf_error(CStr(chan[h].s2c[1])).tag = ERROR_FILE_ERROR


\* ------------------------------------------------- claims on the sessions
\* the connections whose client-side SSL object, context and socket are
\* allocated and not released
ClientAllocated ==
  { h \in Conn : cres[h].sock = 1 /\ cres[h].close = 0 }

\* C11: the client releases a session's SSL object, context and socket
\* when its exchange ends, before it opens the next session or goes back to
\* the menu: it never holds the resources of more than one session, and
\* holds none at the menu.
C11_ClientSessionReleased ==
  /\ Cardinality(ClientAllocated) <= 1
  /\ cpc = "menu" => ClientAllocated = {}
  /\ \A h \in Conn :
       cres[h].close = 1 => (cres[h].ssl_free = 1 /\ cres[h].ctx_free = 1)

\* C12: no failure in a handler (handshake, request, missing file, its own
\* context) ends the server process: once a handler has been launched the
\* process is still running, whatever the handlers have met.
C12_HandlerFailureKeepsServerRunning ==
  (\E h \in Conn : hpc[h] # "none") => srv = "running"

\* C13: main's loop never stops accepting: it can always take another
\* accept, a failing one, which starts nothing, or the accept of a pending
\* connection, whatever the handlers started earlier are doing.
C13_DispatcherKeepsAccepting ==
  /\ ENABLED main_accept_failed
  /\ \A h \in Conn :
       (chan[h].state = "pending" /\ hpc[h] = "none") => ENABLED main_accept(h)

\* the client is back at the menu after a LIST or SEARCH exchange
ListingExchangeOver ==
  /\ cpc = "menu"
  /\ cloc.op \in {LIST_MP3S, SEARCH_MP3S}
  /\ cloc.request # <<>>

\* C14: for LIST and SEARCH the client, having sent the request, reads the
\* reply stream until the server closes it, and only then closes the
\* session: when it is back at the menu the handler of its connection has
\* written its reply and closed its end.
C14_ListingReplyConsumed ==
  ListingExchangeOver =>
    (hpc[cloc.conn] = "done" /\ chan[cloc.conn].sClosed)

\* -------------------------------------------------- claims on playback
\* the playback threads that are running
ActiveTasks == { t \in Threads : play.thr[t] = "running" }

\* main is in stopMP3
InStopMP3 == play.pc \in {"stopMP3", "join"}

\* a step in which stopMP3 returns from the join of a thread
StopReturnsFromJoin ==
  play.pc = "join" /\ play'.pc = play.ret /\ Joinable(play)

\* C15: when stopMP3 is called while a playback thread is running, also
\* right after its creation, it sets the flag to -1 (stop requested) and
\* returns only when that thread has exited; with a thread that polls the
\* flag and fair scheduling it does return.
C15_StopWaitsForPlaybackExit ==
  /\ [](play.pc = "join" => play.stopFlag = -1)
  /\ [][StopReturnsFromJoin =>
          /\ play.thr[play.ptid] = "exited"
          /\ play'.thr[play.ptid] = "joined"
          /\ play'.stopFlag = -1
          /\ ActiveTasks = {}]_vars
  /\ (play.pc = "stopMP3" /\ ActiveTasks # {}) ~> (~InStopMP3 /\ ActiveTasks = {})

\* stopMP3 has set the flag right after playMP3 and waits in the join for
\* the thread, which is still running
C15_Witness ==
  /\ play.pc = "join"
  /\ play.last = "started"
  /\ play.stopFlag = -1
  /\ Joinable(play) /\ play.thr[play.ptid] = "running"

\* C16: a stop requested while no playback thread is running (none was
\* started, the last one was stopped, or it ended by itself) joins nothing:
\* stopMP3 is entered only with a running thread.
C16_StopWithoutPlaybackJoinsNothing ==
  [][(play.pc = "menu" /\ play'.pc = "stopMP3") => ActiveTasks # {}]_vars

\* C17: at most one playback thread exists at any time, and a thread is
\* created only when every thread created before has exited.
C17_AtMostOnePlaybackTask ==
  /\ [](Cardinality(ActiveTasks) <= 1)
  /\ [][\A t \in Threads :
          (play.thr[t] = "none" /\ play'.thr[t] = "running")
             => ActiveTasks = {}]_vars

C17_Witness ==
  \E t, u \in Threads :
    /\ t # u
    /\ play.thr[t] = "joined"
    /\ play.thr[u] = "running"

\* ------------------------------------------ claims on failures and retry
\* the diagnostics of the exits at start-up: no connection, no TLS session
StartupDiagnostics ==
  { "Cannot connect", "Could not establish SSL session" }

\* C18: a failed request does not end the client process: after a
\* FILEERROR or RPCERROR record, or a failure to open or write the local
\* file, the client goes on; it exits with a non-zero status only for a
\* start-up condition.
C18_FailedRequestKeepsClientRunning ==
  (cpc = "exited" /\ cloc.status # EXIT_SUCCESS)
     => cloc.diag \in StartupDiagnostics

\* C19: within one download the attempt counter starts at 1, is
\* incremented by every failed attempt and never exceeds MAX_RETRIES + 1,
\* so that the attempts of a download are bounded.
C19_AttemptCounterCountsFailures ==
  (cloc.op = DOWNLOAD_MP3 /\ cloc.attempts >= 1) =>
    /\ cloc.downloadTries = cloc.attempts
    /\ cloc.attempts <= MAX_RETRIES + 1

\* the handler of h has met a failing fopen or opendir
OpenFailed(h) == hpc[h] = "cleanup" /\ hloc[h].opened = "failed"

\* C20: when an open fails in the server (fopen of the file of a DOWNLOAD,
\* opendir of the directory for LIST or SEARCH) the reply is one FILEERROR
\* record with the error number, and the server process keeps running.
C20_OpenFailureRepliesFileError ==
  \A h \in Conn :
    OpenFailed(h) =>
      /\ srv = "running"
      /\ Len(chan[h].s2c) = 1
      /\ WireError(h).tag = ERROR_FILE_ERROR
      /\ WireError(h).codeSet
      /\ WireError(h).code > 0

\* ------------------------------------------------ claims on the exchange
\* a step in which the handler of h writes to the reply stream
ServerWrites(h) == Len(chan'[h].s2c) > Len(chan[h].s2c)

\* a step in which the client reads a record of the reply stream
ClientReads == cloc'.rd > cloc.rd

\* C21: in every session the server reads the request once, before it
\* writes any byte of the reply, and never reads a second time; the client
\* has written its request before it first reads the reply.
C21_OneRequestReadBeforeReply ==
  /\ [](\A h \in Conn :
          /\ hloc[h].nread <= 1
          /\ (hpc[h] \in {"list_files", "search_files", "send_file_with_hash",
                          "send_loop"}) => hloc[h].nread = 1
          /\ (hpc[h] = "cleanup" /\ chan[h].hs = "ok") => hloc[h].nread = 1
          /\ (hpc[h] = "rpc") => (hloc[h].nread = 0 /\ chan[h].s2c = <<>>))
  /\ [][\A h \in Conn : ServerWrites(h) => hloc'[h].nread = 1]_vars
  /\ [][ClientReads => (cpc = "recv" /\ cloc.request # <<>>
                        /\ chan[cloc.conn].c2s = <<CStr(cloc.request)>>)]_vars

\* the client has read a chunk of a reply whose request the handler read
C21_Witness ==
  /\ cpc = "recv"
  /\ cloc.rd >= 1
  /\ hloc[cloc.conn].nread = 1
  /\ Len(chan[cloc.conn].s2c) >= 2

\* the bytes of the records q, one after the other
RECURSIVE Concat(_)
Concat(q) == IF q = <<>> THEN <<>> ELSE Head(q) \o Concat(Tail(q))

\* the handler of h is sending a file that it opened / has sent it whole
Sending(h) == hpc[h] = "send_loop"

Sent_File(h) == hloc[h].call = "send_file_with_hash" /\ hloc[h].opened = "closed"

\* C22: for DOWNLOAD of a file that opens, the reply stream is the file's
\* bytes in file order, in chunks of 1 to BUFFER_SIZE bytes, then one block
\* of HASH_SIZE bytes that is the digest of those bytes, and nothing is
\* written after that block.  (A stream whose connection broke is a part
\* of that: whole chunks of the file, in order.)
C22_ReplyIsChunksThenDigest ==
  /\ [](\A h \in Conn :
          LET s2c == chan[h].s2c
              n == Len(s2c)
              content == FileBytes(dir, hloc[h].argument)
          IN  /\ Sending(h) =>
                   /\ \A i \in 1..n : Len(s2c[i]) \in 1..BUFFER_SIZE
                   /\ Concat(s2c) = Take(content, Len(Concat(s2c)))
                   /\ hloc[h].wfail = 0 => Len(Concat(s2c)) = hloc[h].fpos
              /\ (Sent_File(h) /\ hloc[h].wfail = 0) =>
                   /\ n >= 1
                   /\ \A i \in 1..(n - 1) : Len(s2c[i]) \in 1..BUFFER_SIZE
                   /\ Concat(SubSeq(s2c, 1, n - 1)) = content
                   /\ Len(s2c[n]) = HASH_SIZE
                   /\ s2c[n] = SHA256_Final(SHA256_Update(SHA256_Init, content))
              /\ (Sent_File(h) /\ hloc[h].wfail > 0) =>
                   Concat(s2c) = Take(content, Len(Concat(s2c))))
  /\ [][\A h \in Conn : Sent_File(h) => ~ServerWrites(h)]_vars

\* a file of two full chunks has been sent with its digest block
C22_Witness ==
  \E h \in Conn :
    /\ Sent_File(h)
    /\ Len(chan[h].s2c) = 3
    /\ Len(chan[h].s2c[1]) = BUFFER_SIZE

\* C23: a chunk that could not be sent ends the transfer: after a failed
\* write of the transfer the handler makes no further write, of a later
\* chunk or of the digest block.
C23_NoWriteAfterFailedChunk ==
  \A h \in Conn : hloc[h].wfail <= 1

\* ------------------------------------------------ claims on the download
\* C24: in one download attempt only the first chunk is tested for an
\* error record: a later chunk is written to the local file whatever its
\* bytes are, so the only thing that ends the attempt at a later chunk is a
\* failing write to the file.
C24_LaterChunksAreContent ==
  (cpc = "exited" /\ cloc.op = DOWNLOAD_MP3 /\ cloc.rd >= 1)
     => cloc.diag = "Error while writing"

\* the chunk the next SSL_read of the client returns scans as an error
\* record
ErrorRecord(chunk) ==
  LET sc == sscanf_error(CStr(chunk))
  IN  sc.tagSet /\ sc.tag \in {ERROR_FILE_ERROR, ERROR_RPC_ERROR}

\* C25: the local file is created or truncated only when the first content
\* chunk of an attempt arrives: the files on the client's disk change only
\* in a step of the receive loop that has a chunk which is not an error
\* record, only the file of that download changes, and once it is open it
\* is only appended to.  An attempt that gets an error record, or no chunk
\* at all, changes and creates nothing.
C25_FileOpenedAtFirstContentChunk ==
  [][disk' # disk =>
       LET ch == chan[cloc.conn]
           f == cloc.fileName
       IN  /\ cpc = "recv"
           /\ Len(ch.s2c) > cloc.rd
           /\ ~ErrorRecord(ch.s2c[cloc.rd + 1])
           /\ \A g \in ClientFiles : g # f => disk'[g] = disk[g]
           /\ disk'[f].exists
           /\ cloc.writefd < 1 => disk'[f].bytes \in {<<>>, ch.s2c[cloc.rd + 1]}
           /\ cloc.writefd >= 1 =>
                (disk[f].exists
                 /\ disk'[f].bytes = disk[f].bytes \o ch.s2c[cloc.rd + 1])]_vars

\* an attempt has ended on an error record: its file does not exist, and
\* a file written by an earlier download is still there with its bytes
C25_Witness ==
  /\ cpc = "exited"
  /\ cloc.op = DOWNLOAD_MP3
  /\ cloc.diag = "file error"
  /\ cloc.rd = 0
  /\ ~disk[cloc.fileName].exists
  /\ \E g \in ClientFiles : disk[g].exists /\ disk[g].bytes # <<>>

\* ------------------------------------------------ claims on the playback
\* C26: every read and every write of the playback flag, by main and by
\* the playback thread, is made with mutexPlaying held.
C26_FlagAccessedUnderMutex ==
  play.acc.by # "none" => play.acc.held

\* ---------------------------------------------- claims on the dispatcher
\* the handler of h has taken its descriptor out of the cell it was given
HasDescriptor(h) == hpc[h] \notin {"none", "start", "done"}

\* C27: under every interleaving of main's loop and the handlers, the
\* handler launched for connection h works on the descriptor of connection
\* h, also when the loop has accepted other connections before that
\* handler ran; and each accepted descriptor is closed once, by that
\* handler, at its end.
C27_HandlerOwnsItsDescriptor ==
  /\ [](\A h \in Conn :
          /\ HasDescriptor(h) => hloc[h].client = h
          /\ (hpc[h] = "start" /\ srv = "running") =>
               hloc[hloc[h].arg].cell = h
          /\ res[h].close <= 1
          /\ hpc[h] = "done" => res[h].close = 1
          /\ (hpc[h] # "done" /\ srv = "running") => res[h].close = 0)
  /\ [][\A d \in Conn :
          res'[d].close # res[d].close =>
            /\ hpc[d] = "cleanup" /\ hpc'[d] = "done"
            /\ hloc[d].client = d
            /\ res'[d].close = res[d].close + 1]_vars

\* every connection was accepted before the handler of the first one ran,
\* and that handler has now taken its descriptor
C27_Witness ==
  /\ HasDescriptor(1)
  /\ hloc[1].client = 1
  /\ \A h \in Conn : h > 1 => hpc[h] = "start"

\* C28: whenever the flag is 0 (playing), main's ptid names a playback
\* thread that was created and is not yet joined, so that every
\* pthread_join of stopMP3 has a thread to join; also after playMP3 failed
\* to create the thread.
C28_PlayingFlagMeansJoinableThread ==
  /\ play.stopFlag = 0 => Joinable(play)
  /\ play.pc = "join" => Joinable(play)

\* ------------------------------------------- claims on the receive buffer
\* C29: in downloadMP3's receive loop, for every length SSL_read can
\* return (1 to BUFFER_SIZE) the terminating 0 is stored at an index inside
\* the buffer, 0 to BUFFER_SIZE - 1.
C29_TerminatorInsideBuffer ==
  (cloc.op = DOWNLOAD_MP3 /\ cloc.nul >= 0)
     => (cloc.nul \in 0..(BUFFER_SIZE - 1) /\ cloc.oob = "none")
=============================================================================
